---------------------------- MODULE Spec2Model ----------------------------
(***************************************************************************)
(* TimestampStore: a store of (id, timestamp) pairs kept in two indices,   *)
(* an identifier index (id -> timestamp) and a timestamp index             *)
(* (timestamp -> set of ids), driven through the ctypes binding            *)
(* timestamp_store/wrapper.py.                                             *)
(*                                                                         *)
(* The compiled core (timestamp_store.cpp, the ts_* functions) is not part *)
(* of the sources at hand; the ts_* operators below follow the written     *)
(* specification of the core.  The binding methods (add, remove,           *)
(* remove_timestamp, get_timestamp, ...) follow wrapper.py.                *)
(***************************************************************************)
EXTENDS Integers, Sequences, FiniteSets, TLC

(***************************************************************************)
(* Bounds of the model.                                                    *)
(***************************************************************************)
MaxId == 3
MaxTs == 1
MaxLen == 3
\* how often one instance is finalised
MaxDel == 2

Ids == 1..MaxId
\* timestamps are signed: two negative values (the value of the core's
\* sentinel and one below it) next to 0..MaxTs
Timestamps == {-2, -1} \cup 0..MaxTs
\* thresholds reach one past the largest timestamp, so everything can expire
Thresholds == {-2, -1} \cup 0..(MaxTs + 1)

(***************************************************************************)
(* Python values.                                                          *)
(***************************************************************************)
\* Optional[int]: None is the empty tuple, a present value v is <<v>>
None == <<>>
Some(v) == <<v>>
\* bool(x) of a C int32
bool(x) == x # 0

(***************************************************************************)
(* Helpers on functions, sets and sequences.                               *)
(***************************************************************************)
EmptyMap == [x \in {} |-> 0]
Restrict(f, S) == [x \in S |-> f[x]]
RangeOf(f) == {f[x] : x \in DOMAIN f}
SeqToSet(s) == {s[i] : i \in 1..Len(s)}
MinOf(S) == CHOOSE m \in S : \A x \in S : m <= x
\* every enumeration of the finite set S as a duplicate-free sequence
Orderings(S) ==
    {s \in [1..Cardinality(S) -> S] : \A i, j \in 1..Cardinality(S) : s[i] = s[j] => i = j}

(***************************************************************************)
(* The core store: [ids, buckets, count].                                  *)
(*   ids     : the identifier index, id -> timestamp                       *)
(*   buckets : the timestamp index, timestamp -> set of ids                *)
(*   count   : the number of live entries                                  *)
(***************************************************************************)
\* the sentinel the core returns for "not found" / "empty"
NOT_FOUND == -1

\* pointer values seen by the binding: a null pointer, a pointer to a live
\* allocation, and (for an attribute of the instance) no value at all
NULL == "NULL"
PTR == "PTR"
MISSING == "MISSING"

\* variant: a bucket that becomes empty is kept
BucketErase_no_prune(buckets, t, id) ==
    IF t \notin DOMAIN buckets THEN buckets
    ELSE [buckets EXCEPT ![t] = @ \ {id}]

\* remove id from the bucket keyed t, pruning the bucket when it becomes empty
BucketErase(buckets, t, id) ==
    IF t \notin DOMAIN buckets THEN buckets
    ELSE IF buckets[t] \ {id} = {} THEN Restrict(buckets, DOMAIN buckets \ {t})
    ELSE [buckets EXCEPT ![t] = @ \ {id}]

\* put id into the bucket keyed t, creating the bucket when it is missing
BucketInsert(buckets, t, id) ==
    [k \in DOMAIN buckets \cup {t} |->
        IF k = t THEN (IF t \in DOMAIN buckets THEN buckets[t] ELSE {}) \cup {id}
        ELSE buckets[k]]

ts_create == [ids |-> EmptyMap, buckets |-> EmptyMap, count |-> 0]

\* variant: the stale association of a relocated id stays in its old bucket
ts_add_keeps_stale(s, id, timestamp) ==
    [ids |-> [k \in DOMAIN s.ids \cup {id} |-> IF k = id THEN timestamp ELSE s.ids[k]],
     buckets |-> BucketInsert(s.buckets, timestamp, id),
     count |-> IF id \in DOMAIN s.ids THEN s.count ELSE s.count + 1]

\* insert, or relocate an existing id: drop the stale association, then
\* insert into both indices; the count grows only for a new id
ts_add(s, id, timestamp) ==
    LET present == id \in DOMAIN s.ids
        stale == IF present THEN BucketErase(s.buckets, s.ids[id], id) ELSE s.buckets
    IN [ids |-> [k \in DOMAIN s.ids \cup {id} |-> IF k = id THEN timestamp ELSE s.ids[k]],
        buckets |-> BucketInsert(stale, timestamp, id),
        count |-> IF present THEN s.count ELSE s.count + 1]

\* remove by id: [store, ret] with ret 1 when the id was found, 0 otherwise
ts_remove(s, id) ==
    IF id \notin DOMAIN s.ids THEN [store |-> s, ret |-> 0]
    ELSE [store |-> [ids |-> Restrict(s.ids, DOMAIN s.ids \ {id}),
                     buckets |-> BucketErase(s.buckets, s.ids[id], id),
                     count |-> s.count - 1],
          ret |-> 1]

\* the walk of the timestamp index from its minimum key while key < threshold:
\* the possible sequences of collected ids (the order inside one bucket is
\* not fixed by the core's interface)
RECURSIVE WalkBuckets(_, _)
WalkBuckets(buckets, threshold) ==
    IF DOMAIN buckets = {} THEN {<<>>}
    ELSE LET k == MinOf(DOMAIN buckets)
         IN IF k >= threshold THEN {<<>>}
            ELSE {head \o rest :
                    head \in Orderings(buckets[k]),
                    rest \in WalkBuckets(Restrict(buckets, DOMAIN buckets \ {k}), threshold)}

\* remove every entry with timestamp < threshold: the set of possible
\* outcomes [store, arr, size, ptr], arr the content of the returned buffer,
\* size its length, ptr the returned pointer.  A non-empty result comes in a
\* heap buffer; the interface does not say whether an empty result comes as
\* a null pointer or as an empty heap buffer, so both are outcomes.
ts_remove_before_timestamp(s, threshold) ==
    {r \in {[store |-> [ids |-> Restrict(s.ids, DOMAIN s.ids \ SeqToSet(arr)),
                        buckets |-> Restrict(s.buckets,
                                             {k \in DOMAIN s.buckets : k >= threshold}),
                        count |-> s.count - Len(arr)],
             arr |-> arr,
             size |-> Len(arr),
             ptr |-> p] : arr \in WalkBuckets(s.buckets, threshold), p \in {NULL, PTR}} :
        r.size > 0 => r.ptr = PTR}

\* the store is discarded as a unit: nothing of it is left
ts_destroy(s) == ts_create

ts_size(s) == s.count
ts_empty(s) == IF s.count = 0 THEN 1 ELSE 0
ts_contains(s, id) == IF id \in DOMAIN s.ids THEN 1 ELSE 0
ts_get_timestamp(s, id) == IF id \in DOMAIN s.ids THEN s.ids[id] ELSE NOT_FOUND
ts_get_min_timestamp(s) ==
    IF DOMAIN s.buckets = {} THEN NOT_FOUND ELSE MinOf(DOMAIN s.buckets)

\* bulk construction from two parallel arrays of length n: for a repeated id
\* the later occurrence wins
ts_create_from_arrays(ids_array, timestamps_array, n) ==
    LET present == {ids_array[i] : i \in 1..n}
        lastIdx(id) == CHOOSE i \in 1..n :
                          ids_array[i] = id /\ \A j \in (i + 1)..n : ids_array[j] # id
        idmap == [id \in present |-> timestamps_array[lastIdx(id)]]
    IN [ids |-> idmap,
        buckets |-> [t \in RangeOf(idmap) |-> {id \in present : idmap[id] = t}],
        count |-> Cardinality(present)]

(***************************************************************************)
(* The binding (wrapper.py).  self is the core store behind self._store.   *)
(***************************************************************************)
__init__ == ts_create

\* variant: the wrong core function is called (ts_empty for ts_size)
__len___empty(self) == ts_empty(self)

__len__(self) == ts_size(self)

\* variant: the negation of the core's result is missing
__bool___not_negated(self) == bool(ts_empty(self))

__bool__(self) == ~ bool(ts_empty(self))

\* variant: the wrong core function is called (ts_get_timestamp for
\* ts_contains)
__contains___by_timestamp(self, id) == bool(ts_get_timestamp(self, id))

__contains__(self, id) == bool(ts_contains(self, id))

\* variant: the id is handed to the core in place of the timestamp
add_id_as_timestamp(self, id, timestamp) == ts_add(self, id, id)

\* variant: the two arguments are handed to the core in the wrong order
add_swapped(self, id, timestamp) == ts_add(self, timestamp, id)

add(self, id, timestamp) == ts_add(self, id, timestamp)

\* variant: the truth value of the core's result is taken the wrong way round
remove_negated(self, id) ==
    LET r == ts_remove(self, id)
    IN [store |-> r.store, ret |-> ~ bool(r.ret)]

remove(self, id) ==
    LET r == ts_remove(self, id)
    IN [store |-> r.store, ret |-> bool(r.ret)]

\* the paths of remove_timestamp after the core call r, with result the list
\* the copy loop builds: [store, ret, raised, arr, allocated, frees] where
\* allocated says that the core handed out a heap buffer and frees counts
\* the ts_free_array calls on it.  The copy either completes or raises; the
\* finally clause frees the buffer on both paths.
remove_timestamp_paths(r, result) ==
    IF r.size = 0 \/ r.ptr = NULL
    THEN {[store |-> r.store, ret |-> <<>>, raised |-> FALSE, arr |-> r.arr,
           allocated |-> r.ptr # NULL, frees |-> 0]}
    ELSE {[store |-> r.store, ret |-> result, raised |-> FALSE, arr |-> r.arr,
           allocated |-> TRUE, frees |-> 1],
          [store |-> r.store, ret |-> <<>>, raised |-> TRUE, arr |-> r.arr,
           allocated |-> TRUE, frees |-> 1]}

\* variant: the copy loop stops one element short (range(size.value - 1))
remove_timestamp_short(self, timestamp) ==
    UNION {remove_timestamp_paths(r, [i \in 1..(r.size - 1) |-> r.arr[i]]) :
             r \in ts_remove_before_timestamp(self, timestamp)}

\* variant: the threshold handed to the core is off by one (<= instead of <)
remove_timestamp_inclusive(self, timestamp) ==
    UNION {remove_timestamp_paths(r, [i \in 1..r.size |-> r.arr[i]]) :
             r \in ts_remove_before_timestamp(self, timestamp + 1)}

\* variant: the copy loop runs over the buffer from its end
remove_timestamp_reversed(self, timestamp) ==
    UNION {remove_timestamp_paths(r, [i \in 1..r.size |-> r.arr[r.size + 1 - i]]) :
             r \in ts_remove_before_timestamp(self, timestamp)}

\* the possible outcomes of remove_timestamp; ret is the Python list copied
\* out of the returned buffer, [] when the core reports size 0 or a null
\* pointer
remove_timestamp(self, timestamp) ==
    UNION {remove_timestamp_paths(r, [i \in 1..r.size |-> r.arr[i]]) :
             r \in ts_remove_before_timestamp(self, timestamp)}

get_timestamp(self, id) ==
    LET ts == ts_get_timestamp(self, id)
    IN IF ts >= 0 THEN Some(ts) ELSE None

get_min_timestamp(self) ==
    LET ts == ts_get_min_timestamp(self)
    IN IF ts >= 0 THEN Some(ts) ELSE None

\* variant: the core is told one element fewer than the arrays hold
from_list_short(pairs) ==
    IF pairs = <<>> THEN __init__
    ELSE LET n == Len(pairs)
             ids_array == [i \in 1..n |-> pairs[i][1]]
             timestamps_array == [i \in 1..n |-> pairs[i][2]]
         IN ts_create_from_arrays(ids_array, timestamps_array, n - 1)

from_list(pairs) ==
    IF pairs = <<>> THEN __init__
    ELSE LET n == Len(pairs)
             ids_array == [i \in 1..n |-> pairs[i][1]]
             timestamps_array == [i \in 1..n |-> pairs[i][2]]
         IN ts_create_from_arrays(ids_array, timestamps_array, n)

\* a dict is [keys, val]: keys its keys in insertion order, val the mapping;
\* items(data) is list(data.items())
items(data) == [i \in 1..Len(data.keys) |-> <<data.keys[i], data.val[data.keys[i]]>>]

from_dict(data) == from_list(items(data))

(***************************************************************************)
(* The instance and its handle.  An instance is [obj, handle]: obj says    *)
(* whether an object exists and reached the caller ("returned"), exists    *)
(* but its constructor raised ("failed"), or was never made ("none");      *)
(* handle is the attribute self._store: MISSING while unset, else the      *)
(* pointer it holds.  lib_ok says whether _load_library found the library, *)
(* store_ptr is what the core's create call returned.                      *)
(***************************************************************************)
\* TimestampStore(lib_path): [obj, handle, exc], exc the exception raised
__init___instance(lib_ok, store_ptr) ==
    IF ~ lib_ok THEN [obj |-> "failed", handle |-> MISSING, exc |-> "FileNotFoundError"]
    ELSE IF store_ptr = NULL THEN [obj |-> "failed", handle |-> NULL, exc |-> "MemoryError"]
    ELSE [obj |-> "returned", handle |-> store_ptr, exc |-> ""]

\* variant: the null test on the created handle is missing
from_list_instance_unchecked(pairs, lib_ok, store_ptr) ==
    IF pairs = <<>> THEN __init___instance(lib_ok, store_ptr)
    ELSE IF ~ lib_ok THEN [obj |-> "none", handle |-> MISSING, exc |-> "FileNotFoundError"]
    ELSE [obj |-> "returned", handle |-> store_ptr, exc |-> ""]

\* from_list(pairs, lib_path): the instance is made by object.__new__ only
\* after the handle was tested
from_list_instance(pairs, lib_ok, store_ptr) ==
    IF pairs = <<>> THEN __init___instance(lib_ok, store_ptr)
    ELSE IF ~ lib_ok THEN [obj |-> "none", handle |-> MISSING, exc |-> "FileNotFoundError"]
    ELSE IF store_ptr = NULL THEN [obj |-> "none", handle |-> MISSING, exc |-> "MemoryError"]
    ELSE [obj |-> "returned", handle |-> store_ptr, exc |-> ""]

from_dict_instance(data, lib_ok, store_ptr) ==
    from_list_instance(items(data), lib_ok, store_ptr)

\* variant: the handle is not cleared after ts_destroy
__del___keeps_handle(handle) ==
    IF handle # MISSING /\ handle # NULL
    THEN [handle |-> handle, destroy |-> <<handle>>]
    ELSE [handle |-> handle, destroy |-> <<>>]

\* __del__: [handle, destroy], handle the attribute afterwards, destroy the
\* arguments of the ts_destroy calls made.  hasattr(self, '_lib') holds for
\* every instance, _lib being an attribute of the class.
__del__(handle) ==
    IF handle # MISSING /\ handle # NULL
    THEN [handle |-> NULL, destroy |-> <<handle>>]
    ELSE [handle |-> handle, destroy |-> <<>>]

(***************************************************************************)
(* Inputs.                                                                 *)
(***************************************************************************)
Pairs == Ids \X Timestamps
PairLists == UNION {[1..n -> Pairs] : n \in 0..MaxLen}
Dicts == UNION {{[keys |-> ks, val |-> v] : ks \in Orderings(K), v \in [K -> Timestamps]} :
                   K \in SUBSET Ids}

(***************************************************************************)
(* State.                                                                  *)
(*   _store  : the core store behind the binding's handle                  *)
(*   pre     : the store as it was before the last call                    *)
(*   op      : the last call, args its arguments, ret what it returned;    *)
(*             op = "raise" when the last call raised, args then being the *)
(*             method and the exception                                    *)
(*   inst    : the instance, [obj, handle]                                 *)
(*   created : the pointer the core's create call returned (MISSING when   *)
(*             the core was not called)                                    *)
(*   dels    : the number of __del__ calls on the instance                 *)
(*   destroy_calls : the arguments of the ts_destroy calls so far          *)
(*   buffer  : the result buffer of the last remove_timestamp call,        *)
(*             [allocated, frees]                                          *)
(*   inserted : the ids inserted by add or batch creation and not since    *)
(*             removed by remove or handed out by remove_before            *)
(*   floor   : the highest threshold of a remove_before call since which   *)
(*             no add with a timestamp below it occurred, None without one *)
(***************************************************************************)
VARIABLES _store, pre, op, args, ret, inst, created, dels, destroy_calls, buffer,
          inserted, floor

vars == <<_store, pre, op, args, ret, inst, created, dels, destroy_calls, buffer,
          inserted, floor>>

NoBuffer == [allocated |-> FALSE, frees |-> 0]

\* the state after a constructor call named name with arguments a: i the
\* instance it leaves, s the store it builds
Constructed(name, a, i, s) ==
    /\ inst = [obj |-> i.obj, handle |-> i.handle]
    /\ IF i.exc = ""
       THEN /\ op = name /\ args = a /\ _store = s
            /\ inserted = DOMAIN s.ids
       ELSE /\ op = "raise" /\ args = <<name, i.exc>> /\ _store = ts_create
            /\ inserted = {}

Init ==
    /\ pre = ts_create
    /\ ret = None
    /\ dels = 0
    /\ destroy_calls = <<>>
    /\ buffer = NoBuffer
    /\ floor = None
    /\ \E lib_ok \in BOOLEAN, store_ptr \in {NULL, PTR} :
          /\ created = (IF lib_ok THEN store_ptr ELSE MISSING)
          /\ \/ Constructed("__init__", <<>>, __init___instance(lib_ok, store_ptr), __init__)
             \/ \E pairs \in PairLists :
                   Constructed("from_list", <<pairs>>,
                               from_list_instance(pairs, lib_ok, store_ptr), from_list(pairs))
             \/ \E data \in Dicts :
                   Constructed("from_dict", <<data>>,
                               from_dict_instance(data, lib_ok, store_ptr), from_dict(data))

\* methods are called on an instance the caller holds and has not finalised
Usable == inst.obj = "returned" /\ dels = 0

Add ==
    /\ Usable
    /\ \E id \in Ids, timestamp \in Timestamps :
        /\ _store' = add(_store, id, timestamp)
        /\ pre' = _store
        /\ op' = "add" /\ args' = <<id, timestamp>> /\ ret' = None
        /\ inserted' = inserted \cup {id}
        /\ floor' = IF floor # None /\ timestamp < floor[1] THEN None ELSE floor
    /\ buffer' = NoBuffer
    /\ UNCHANGED <<inst, created, dels, destroy_calls>>

Remove ==
    /\ Usable
    /\ \E id \in Ids :
        LET r == remove(_store, id)
        IN /\ _store' = r.store
           /\ pre' = _store
           /\ op' = "remove" /\ args' = <<id>> /\ ret' = r.ret
           /\ inserted' = inserted \ {id}
    /\ buffer' = NoBuffer
    /\ UNCHANGED <<inst, created, dels, destroy_calls, floor>>

RemoveTimestamp ==
    /\ Usable
    /\ \E timestamp \in Thresholds :
        \E r \in remove_timestamp(_store, timestamp) :
           /\ _store' = r.store
           /\ pre' = _store
           /\ IF r.raised
              THEN op' = "raise" /\ args' = <<"remove_timestamp", "Exception">> /\ ret' = None
              ELSE op' = "remove_timestamp" /\ args' = <<timestamp>> /\ ret' = r.ret
           /\ buffer' = [allocated |-> r.allocated, frees |-> r.frees]
           /\ inserted' = inserted \ SeqToSet(r.arr)
           /\ floor' = IF floor = None \/ floor[1] < timestamp THEN Some(timestamp) ELSE floor
    /\ UNCHANGED <<inst, created, dels, destroy_calls>>

Len_ ==
    /\ Usable
    /\ op' = "__len__" /\ args' = <<>> /\ ret' = __len__(_store)
    /\ pre' = _store /\ UNCHANGED _store
    /\ buffer' = NoBuffer
    /\ UNCHANGED <<inst, created, dels, destroy_calls, inserted, floor>>

Bool_ ==
    /\ Usable
    /\ op' = "__bool__" /\ args' = <<>> /\ ret' = __bool__(_store)
    /\ pre' = _store /\ UNCHANGED _store
    /\ buffer' = NoBuffer
    /\ UNCHANGED <<inst, created, dels, destroy_calls, inserted, floor>>

Contains_ ==
    /\ Usable
    /\ \E id \in Ids :
        /\ op' = "__contains__" /\ args' = <<id>> /\ ret' = __contains__(_store, id)
        /\ pre' = _store /\ UNCHANGED _store
    /\ buffer' = NoBuffer
    /\ UNCHANGED <<inst, created, dels, destroy_calls, inserted, floor>>

\* variant: the lookup inserts a default entry for an absent id
GetTimestamp_inserting ==
    /\ Usable
    /\ \E id \in Ids :
        /\ op' = "get_timestamp" /\ args' = <<id>> /\ ret' = get_timestamp(_store, id)
        /\ pre' = _store
        /\ _store' = IF id \in DOMAIN _store.ids THEN _store ELSE ts_add(_store, id, 0)
    /\ buffer' = NoBuffer
    /\ UNCHANGED <<inst, created, dels, destroy_calls, inserted, floor>>

GetTimestamp ==
    /\ Usable
    /\ \E id \in Ids :
        /\ op' = "get_timestamp" /\ args' = <<id>> /\ ret' = get_timestamp(_store, id)
        /\ pre' = _store /\ UNCHANGED _store
    /\ buffer' = NoBuffer
    /\ UNCHANGED <<inst, created, dels, destroy_calls, inserted, floor>>

GetMinTimestamp ==
    /\ Usable
    /\ op' = "get_min_timestamp" /\ args' = <<>> /\ ret' = get_min_timestamp(_store)
    /\ pre' = _store /\ UNCHANGED _store
    /\ buffer' = NoBuffer
    /\ UNCHANGED <<inst, created, dels, destroy_calls, inserted, floor>>

\* finalisation of an existing object, possibly repeated; ts_destroy discards
\* the core store
Del ==
    /\ inst.obj \in {"returned", "failed"}
    /\ dels < MaxDel
    /\ LET d == __del__(inst.handle)
       IN /\ inst' = [inst EXCEPT !.handle = d.handle]
          /\ destroy_calls' = destroy_calls \o d.destroy
          /\ _store' = IF d.destroy # <<>> THEN ts_destroy(_store) ELSE _store
    /\ dels' = dels + 1
    /\ pre' = _store
    /\ op' = "__del__" /\ args' = <<>> /\ ret' = None
    /\ buffer' = NoBuffer
    /\ UNCHANGED <<created, inserted, floor>>

Next ==
    \/ Add
    \/ Remove
    \/ RemoveTimestamp
    \/ Len_
    \/ Bool_
    \/ Contains_
    \/ GetTimestamp
    \/ GetMinTimestamp
    \/ Del

Spec == Init /\ [][Next]_vars

(***************************************************************************)
(* Shape of the state.                                                     *)
(***************************************************************************)
TypeOK ==
    /\ DOMAIN _store.ids \subseteq Ids
    /\ \A id \in DOMAIN _store.ids : _store.ids[id] \in Timestamps
    /\ DOMAIN _store.buckets \subseteq Timestamps
    /\ _store.count \in 0..MaxId

(***************************************************************************)
(* Views of a store used by the properties.                                *)
(***************************************************************************)
LiveIds(s) == DOMAIN s.ids
BucketIds(s) == UNION {s.buckets[t] : t \in DOMAIN s.buckets}
BucketsOf(s, id) == {t \in DOMAIN s.buckets : id \in s.buckets[t]}
Expired(s, threshold) == {id \in LiveIds(s) : s.ids[id] < threshold}
\* the entry of id is the same in stores s and t: same timestamp, same bucket
SameEntry(s, t, id) ==
    /\ (id \in LiveIds(s)) = (id \in LiveIds(t))
    /\ id \in LiveIds(s) => s.ids[id] = t.ids[id]
    /\ BucketsOf(s, id) = BucketsOf(t, id)

\* an empty store followed by add(id, ts) for each pair, in sequence order
RECURSIVE SequentialAdd(_, _)
SequentialAdd(s, pairs) ==
    IF pairs = <<>> THEN s
    ELSE SequentialAdd(add(s, Head(pairs)[1], Head(pairs)[2]), Tail(pairs))

\* the two indices describe the same set of pairs, without empty buckets
IndexesAgree ==
    /\ LiveIds(_store) = BucketIds(_store)
    /\ \A id \in LiveIds(_store) : BucketsOf(_store, id) = {_store.ids[id]}
    /\ \A t \in DOMAIN _store.buckets : _store.buckets[t] # {}

(***************************************************************************)
(* C1  Index agreement: the ids of the identifier index are the union of   *)
(* the ids of all buckets, and each live id lies in exactly one bucket,    *)
(* the one keyed by the timestamp that get_timestamp(id) reports.          *)
(***************************************************************************)
C1_IndexAgreement ==
    /\ LiveIds(_store) = BucketIds(_store)
    /\ \A id \in LiveIds(_store) :
          /\ Cardinality(BucketsOf(_store, id)) = 1
          /\ get_timestamp(_store, id) # None
          /\ BucketsOf(_store, id) = {get_timestamp(_store, id)[1]}

(***************************************************************************)
(* C2  Bulk-removal completeness: after remove_before(threshold) no        *)
(* remaining entry has timestamp < threshold (in either index), and the    *)
(* returned list holds exactly the ids that were live with timestamp <     *)
(* threshold before the call, each once.                                   *)
(***************************************************************************)
C2_BulkRemovalComplete ==
    op = "remove_timestamp" =>
        /\ \A id \in LiveIds(_store) : _store.ids[id] >= args[1]
        /\ \A t \in DOMAIN _store.buckets : t >= args[1]
        /\ SeqToSet(ret) = Expired(pre, args[1])
        /\ Len(ret) = Cardinality(Expired(pre, args[1]))
        /\ LiveIds(_store) = LiveIds(pre) \ Expired(pre, args[1])

\* a call that evicted at least two ids sharing one bucket and left an entry
\* behind
C2_Witness ==
    /\ op = "remove_timestamp"
    /\ Len(ret) >= 2
    /\ \E i, j \in 1..Len(ret) : i # j /\ pre.ids[ret[i]] = pre.ids[ret[j]]
    /\ LiveIds(_store) # {}

(***************************************************************************)
(* C3  Threshold strictness and frame: remove_before(threshold) leaves     *)
(* every entry with timestamp >= threshold (equal included) present with   *)
(* its timestamp unchanged; when nothing is below the threshold the result *)
(* is empty and the store is unchanged.                                    *)
(***************************************************************************)
C3_ThresholdStrictFrame ==
    op = "remove_timestamp" =>
        /\ \A id \in LiveIds(pre) :
              pre.ids[id] >= args[1] => SameEntry(pre, _store, id) /\ id \in LiveIds(_store)
        /\ Expired(pre, args[1]) = {} => ret = <<>> /\ _store = pre

\* a call whose threshold equals the timestamp of a live entry while another
\* entry lies below it
C3_Witness ==
    /\ op = "remove_timestamp"
    /\ \E id \in LiveIds(pre) : pre.ids[id] = args[1]
    /\ Expired(pre, args[1]) # {}

\* a call that finds nothing below the threshold on a non-empty store
C3_WitnessNothingExpired ==
    /\ op = "remove_timestamp"
    /\ LiveIds(pre) # {}
    /\ Expired(pre, args[1]) = {}

(***************************************************************************)
(* C4  Update relocates: add(id, t2) for an id present with t1 # t2 gives  *)
(* get_timestamp(id) = t2, the same size, id out of the bucket of t1 and   *)
(* in the bucket of t2, and every other entry unchanged.                   *)
(***************************************************************************)
C4_UpdateRelocates ==
    (op = "add" /\ args[1] \in LiveIds(pre) /\ pre.ids[args[1]] # args[2]) =>
        /\ get_timestamp(_store, args[1]) = Some(args[2])
        /\ __len__(_store) = __len__(pre)
        /\ BucketsOf(_store, args[1]) = {args[2]}
        /\ \A other \in Ids \ {args[1]} : SameEntry(pre, _store, other)

(***************************************************************************)
(* C5  Min-timestamp correctness: get_min_timestamp() is the smallest      *)
(* timestamp among the present entries, for any signed timestamps, and is  *)
(* the empty result exactly when size() = 0.                               *)
(***************************************************************************)
C5_MinTimestamp ==
    /\ get_min_timestamp(_store) =
          (IF LiveIds(_store) = {} THEN None ELSE Some(MinOf(RangeOf(_store.ids))))
    /\ (get_min_timestamp(_store) = None) <=> (__len__(_store) = 0)
    /\ op = "get_min_timestamp" => ret = get_min_timestamp(_store)

(***************************************************************************)
(* C6  get_timestamp(id) is the timestamp most recently associated with id *)
(* by add or batch creation when id is present, for any signed timestamp,  *)
(* and is the not-found result exactly when id is absent.                  *)
(***************************************************************************)
C6_GetTimestamp ==
    /\ \A id \in Ids :
          /\ id \in LiveIds(_store) => get_timestamp(_store, id) = Some(_store.ids[id])
          /\ (get_timestamp(_store, id) = None) <=> (id \notin LiveIds(_store))
    /\ op = "add" => get_timestamp(_store, args[1]) = Some(args[2])
    /\ op = "from_list" =>
          \A i \in 1..Len(args[1]) :
              (\A j \in (i + 1)..Len(args[1]) : args[1][j][1] # args[1][i][1])
                  => get_timestamp(_store, args[1][i][1]) = Some(args[1][i][2])

(***************************************************************************)
(* C7  remove(id): an absent id gives False and leaves the store as it     *)
(* was; a present id gives True, the id is gone from both indices, the     *)
(* size drops by exactly one and every other entry is unchanged.           *)
(***************************************************************************)
C7_RemoveById ==
    op = "remove" =>
        IF args[1] \notin LiveIds(pre)
        THEN ret = FALSE /\ _store = pre
        ELSE /\ ret = TRUE
             /\ args[1] \notin LiveIds(_store)
             /\ BucketsOf(_store, args[1]) = {}
             /\ __len__(_store) = __len__(pre) - 1
             /\ \A other \in Ids \ {args[1]} : SameEntry(pre, _store, other)

\* a removal of a present id that shared its bucket with another id
C7_Witness ==
    /\ op = "remove"
    /\ args[1] \in LiveIds(pre)
    /\ ret = TRUE
    /\ \E other \in LiveIds(_store) : pre.ids[other] = pre.ids[args[1]]

\* a removal of an absent id from a non-empty store
C7_WitnessAbsent ==
    /\ op = "remove"
    /\ args[1] \notin LiveIds(pre)
    /\ LiveIds(pre) # {}
    /\ ret = FALSE

(***************************************************************************)
(* C8  size() equals the number of distinct live ids; add raises it by     *)
(* one for an absent id and leaves it for a present one; remove_before     *)
(* lowers it by the length of the returned list.                           *)
(***************************************************************************)
C8_SizeCountsLiveIds ==
    /\ __len__(_store) = Cardinality(LiveIds(_store))
    /\ __len__(_store) = Cardinality(BucketIds(_store))
    /\ op = "__len__" => ret = Cardinality(LiveIds(_store))
    /\ op = "add" =>
          __len__(_store) = __len__(pre) + (IF args[1] \in LiveIds(pre) THEN 0 ELSE 1)
    /\ op = "remove_timestamp" => __len__(_store) = __len__(pre) - Len(ret)

\* an add of a new id next to existing ones
C8_Witness ==
    /\ op = "add"
    /\ args[1] \notin LiveIds(pre)
    /\ __len__(pre) >= 1
    /\ __len__(_store) = __len__(pre) + 1

\* an add of a present id with a new timestamp
C8_WitnessUpdate ==
    /\ op = "add"
    /\ args[1] \in LiveIds(pre)
    /\ pre.ids[args[1]] # args[2]

\* an eviction of several ids that leaves an entry behind
C8_WitnessEvict ==
    /\ op = "remove_timestamp"
    /\ Len(ret) >= 2
    /\ __len__(_store) >= 1

(***************************************************************************)
(* C9  Idempotent update: add(id, t) on a store that already holds (id, t) *)
(* leaves size(), get_timestamp(id) and the whole store unchanged.         *)
(***************************************************************************)
C9_IdempotentAdd ==
    (op = "add" /\ args[1] \in LiveIds(pre) /\ pre.ids[args[1]] = args[2]) =>
        /\ __len__(_store) = __len__(pre)
        /\ get_timestamp(_store, args[1]) = get_timestamp(pre, args[1])
        /\ _store = pre

\* a repeated add of an id that shares its bucket with another id
C9_Witness ==
    /\ op = "add"
    /\ args[1] \in LiveIds(pre)
    /\ pre.ids[args[1]] = args[2]
    /\ \E other \in LiveIds(pre) \ {args[1]} : pre.ids[other] = args[2]

(***************************************************************************)
(* C10  Batch construction equals sequential add: from_list(pairs) is the  *)
(* store obtained from an empty store by add(id, ts) for each pair in      *)
(* order (so the later occurrence of a repeated id wins, and an empty      *)
(* sequence gives an empty store); from_dict(d) holds exactly the pairs    *)
(* of d.                                                                   *)
(***************************************************************************)
C10_BatchEqualsSequentialAdd ==
    /\ op = "from_list" =>
          /\ _store = SequentialAdd(__init__, args[1])
          /\ args[1] = <<>> => _store = __init__
    /\ op = "from_dict" =>
          /\ _store.ids = args[1].val
          /\ \A id \in DOMAIN args[1].val : BucketsOf(_store, id) = {args[1].val[id]}
          /\ BucketIds(_store) = DOMAIN args[1].val
          /\ __len__(_store) = Len(args[1].keys)

\* a batch in which an id occurs twice with different timestamps, next to
\* another id
C10_Witness ==
    /\ op = "from_list"
    /\ \E i, j \in 1..Len(args[1]) :
          i < j /\ args[1][i][1] = args[1][j][1] /\ args[1][i][2] # args[1][j][2]
    /\ __len__(_store) >= 2

\* a dict of several pairs
C10_WitnessDict ==
    /\ op = "from_dict"
    /\ Len(args[1].keys) >= 2

(***************************************************************************)
(* C11  contains(id) is true exactly when id was inserted (by add or batch *)
(* creation) and has not since been removed by remove(id) or handed out by *)
(* a remove_before call; an id returned by remove_before is no longer      *)
(* contained, and adding it again makes it contained again.                *)
(***************************************************************************)
C11_ContainsTracksMembership ==
    Usable =>
        /\ \A id \in Ids : __contains__(_store, id) <=> id \in inserted
        /\ op = "__contains__" => ret = (args[1] \in inserted)
        /\ op = "remove_timestamp" => \A i \in 1..Len(ret) : ~ __contains__(_store, ret[i])
        /\ op = "add" => __contains__(_store, args[1])

\* a remove_before call that handed out an id and left another one behind
C11_Witness ==
    /\ op = "remove_timestamp"
    /\ Len(ret) >= 1
    /\ ~ __contains__(_store, ret[1])
    /\ \E id \in Ids : __contains__(_store, id)

\* an add of an id that was not contained before the call
C11_WitnessAddAgain ==
    /\ op = "add"
    /\ ~ __contains__(pre, args[1])
    /\ __contains__(_store, args[1])

(***************************************************************************)
(* C12  Queries do not mutate: size, is_empty, contains, get_timestamp and *)
(* get_min_timestamp leave the identifier index, the timestamp index and   *)
(* the live count unchanged, for present and absent ids, for empty and     *)
(* non-empty stores.                                                       *)
(***************************************************************************)
Queries == {"__len__", "__bool__", "__contains__", "get_timestamp", "get_min_timestamp"}

C12_QueriesDoNotMutate ==
    [][op' \in Queries =>
          /\ _store'.ids = _store.ids
          /\ _store'.buckets = _store.buckets
          /\ _store'.count = _store.count]_vars

\* a get_timestamp call for an absent id on a non-empty store
C12_Witness ==
    /\ op = "get_timestamp"
    /\ args[1] \notin LiveIds(pre)
    /\ LiveIds(pre) # {}
    /\ _store = pre

\* a get_min_timestamp call on an empty store
C12_WitnessEmpty ==
    /\ op = "get_min_timestamp"
    /\ LiveIds(pre) = {}
    /\ _store = pre

(***************************************************************************)
(* C13  Result-buffer release: every heap buffer returned by the core's    *)
(* remove_before call is released by the binding exactly once on every     *)
(* path of remove_timestamp, also when the reported count is 0 and when    *)
(* copying the result raises.                                              *)
(***************************************************************************)
C13_BufferReleasedOnce ==
    buffer.allocated => buffer.frees = 1

\* the two paths on which the buffer is released once: the copy completed,
\* and the copy raised
BufferReleasedAfterCopy ==
    (buffer.allocated /\ (op = "raise" \/ (op = "remove_timestamp" /\ ret # <<>>)))
        => buffer.frees = 1

(***************************************************************************)
(* C14  Allocation failure during construction is reported: when the core  *)
(* returns a null handle from create or create_from_batch, the constructor *)
(* or from_list raises MemoryError, and no instance holding a null handle  *)
(* is ever returned to the caller.                                         *)
(***************************************************************************)
C14_AllocationFailureReported ==
    /\ (created = NULL /\ dels = 0) =>
          /\ op = "raise"
          /\ args[2] = "MemoryError"
          /\ inst.obj # "returned"
    /\ inst.obj = "returned" => created = PTR
    /\ (inst.obj = "returned" /\ dels = 0) => inst.handle = PTR

\* from_list on a non-empty list whose create_from_batch call returned null
C14_Witness ==
    /\ created = NULL
    /\ op = "raise"
    /\ args = <<"from_list", "MemoryError">>
    /\ inst.obj = "none"

\* the constructor whose create call returned null
C14_WitnessInit ==
    /\ created = NULL
    /\ op = "raise"
    /\ args = <<"__init__", "MemoryError">>
    /\ inst.obj = "failed"

(***************************************************************************)
(* C15  No partial-failure state: each call of add, remove or              *)
(* remove_before either applies its update to both indices completely or   *)
(* leaves both exactly as they were; no reachable state has one index      *)
(* updated without the other.                                              *)
(***************************************************************************)
\* the (id, timestamp) pairs each index describes
IdPairs(s) == {<<id, s.ids[id]>> : id \in DOMAIN s.ids}
BucketPairs(s) == UNION {{<<id, t>> : id \in s.buckets[t]} : t \in DOMAIN s.buckets}
\* both indices of s describe exactly the pairs P
BothIndices(s, P) == IdPairs(s) = P /\ BucketPairs(s) = P
\* both indices of s are as in t
Untouched(s, t) == s.ids = t.ids /\ s.buckets = t.buckets

C16_TruthValueIsNonEmpty ==
    /\ __bool__(_store) <=> (__len__(_store) # 0)
    /\ bool(ts_empty(_store)) <=> (__len__(_store) = 0)
    /\ __bool__(_store) <=> (LiveIds(_store) # {})
    /\ __bool__(_store) <=> (BucketIds(_store) # {})
    /\ op = "__bool__" => ret = (__len__(_store) # 0)

\* bool(store) on an empty store that the core did create
C16_Witness ==
    /\ op = "__bool__"
    /\ ret = FALSE
    /\ inserted = {}
    /\ created = PTR

\* bool(store) on a store of several entries
C16_WitnessNonEmpty ==
    /\ op = "__bool__"
    /\ ret = TRUE
    /\ __len__(_store) >= 2

(***************************************************************************)
(* C17  remove_before walks the timestamp index from its minimum key       *)
(* upward: the returned ids come in non-decreasing order of the timestamps *)
(* they had before removal, and only buckets with key < threshold are      *)
(* visited and erased; buckets with key >= threshold are untouched.        *)
(***************************************************************************)
C17_AscendingWalk ==
    op = "remove_timestamp" =>
        /\ \A i, j \in 1..Len(ret) : i < j => pre.ids[ret[i]] <= pre.ids[ret[j]]
        /\ \A t \in DOMAIN pre.buckets :
              IF t < args[1]
              THEN t \notin DOMAIN _store.buckets
              ELSE t \in DOMAIN _store.buckets /\ _store.buckets[t] = pre.buckets[t]
        /\ DOMAIN _store.buckets \subseteq DOMAIN pre.buckets

\* a call that emptied two buckets of different keys and left a third
C17_Witness ==
    /\ op = "remove_timestamp"
    /\ \E i, j \in 1..Len(ret) : i < j /\ pre.ids[ret[i]] < pre.ids[ret[j]]
    /\ DOMAIN _store.buckets # {}

(***************************************************************************)
(* C18  Bucket pruning: the timestamp index never holds an empty bucket; a *)
(* bucket whose last id is removed by remove, relocated by add or evicted  *)
(* by remove_before is erased, so the minimum key of the timestamp index   *)
(* is always the timestamp of some live entry.                             *)
(***************************************************************************)
\* the last call took the last id out of the bucket keyed t
TookLastOf(t) ==
    /\ t \in DOMAIN pre.buckets
    /\ \A id \in pre.buckets[t] : id \notin LiveIds(_store) \/ _store.ids[id] # t

C18_NoEmptyBucket ==
    /\ \A t \in DOMAIN _store.buckets : _store.buckets[t] # {}
    /\ DOMAIN _store.buckets # {} =>
          \E id \in LiveIds(_store) : _store.ids[id] = MinOf(DOMAIN _store.buckets)
    /\ op \in {"add", "remove", "remove_timestamp"} =>
          \A t \in DOMAIN pre.buckets : TookLastOf(t) => t \notin DOMAIN _store.buckets

\* a remove that took the only id of the minimum bucket while other buckets
\* stay
C18_Witness ==
    /\ op = "remove"
    /\ ret = TRUE
    /\ pre.buckets[pre.ids[args[1]]] = {args[1]}
    /\ pre.ids[args[1]] = MinOf(DOMAIN pre.buckets)
    /\ DOMAIN _store.buckets # {}

\* an add that relocated the only id of a bucket
C18_WitnessRelocate ==
    /\ op = "add"
    /\ args[1] \in LiveIds(pre)
    /\ pre.ids[args[1]] # args[2]
    /\ pre.buckets[pre.ids[args[1]]] = {args[1]}

(***************************************************************************)
(* C19  Eviction and minimum agree: right after remove_before(threshold)   *)
(* get_min_timestamp() is either the empty result (the store being empty)  *)
(* or a value >= threshold, and it stays so until an add with a timestamp  *)
(* < threshold occurs.                                                     *)
(***************************************************************************)
\* get_min_timestamp() on s is the empty result with s empty, or a value >= th
MinAtLeast(s, th) ==
    LET m == get_min_timestamp(s)
    IN IF m = None THEN __len__(s) = 0 ELSE m[1] >= th

C19_MinAfterEviction ==
    /\ op = "remove_timestamp" => MinAtLeast(_store, args[1])
    /\ floor # None => MinAtLeast(_store, floor[1])

\* the same on the timestamp index itself: its minimum key, if any, is >= th
MinKeyAtLeast(s, th) ==
    DOMAIN s.buckets = {} \/ MinOf(DOMAIN s.buckets) >= th

EvictionRaisesMinKey ==
    /\ op = "remove_timestamp" => MinKeyAtLeast(_store, args[1])
    /\ floor # None => MinKeyAtLeast(_store, floor[1])

\* an add at or above the threshold of an earlier eviction, next to an entry
\* that survived it
EvictionThenAddAbove ==
    /\ op = "add"
    /\ floor # None
    /\ args[2] >= floor[1]
    /\ Cardinality(LiveIds(_store)) >= 2

(***************************************************************************)
(* C20  Handle lifecycle: for a handle obtained from create or             *)
(* create_from_batch the binding calls destroy at most once (a repeated    *)
(* finalisation does not destroy twice), never calls destroy on a null or  *)
(* missing handle (as after a failed construction), and the store is       *)
(* discarded as a unit.                                                    *)
(***************************************************************************)
C20_HandleLifecycle ==
    /\ Len(destroy_calls) <= 1
    /\ \A i \in 1..Len(destroy_calls) : destroy_calls[i] = PTR
    /\ created # PTR => destroy_calls = <<>>
    /\ destroy_calls # <<>> =>
          /\ inst.handle = NULL
          /\ _store.ids = EmptyMap /\ _store.buckets = EmptyMap /\ _store.count = 0

\* a second finalisation of an instance whose handle was destroyed by the
\* first, the store having held entries
C20_Witness ==
    /\ dels = 2
    /\ destroy_calls = <<PTR>>
    /\ inserted # {}

\* the finalisation of an object whose constructor got a null handle
C20_WitnessFailed ==
    /\ dels >= 1
    /\ created = NULL
    /\ inst.obj = "failed"
    /\ destroy_calls = <<>>

\* the finalisation of an object whose handle was never set
C20_WitnessMissing ==
    /\ dels >= 1
    /\ inst.handle = MISSING
    /\ inst.obj = "failed"
    /\ destroy_calls = <<>>

=============================================================================
